---- MODULE Spec2Model ----
(***************************************************************************)
(* Model of job-alert.py: the matcher, the four source adapters, the       *)
(* aggregating loop of main, consolidate_and_filter, save_results and      *)
(* send_email_with_attachments.                                            *)
(*                                                                         *)
(* Text that the program searches (titles, companies, summaries, locations)*)
(* is a sequence of one-character strings, so that lower(), strip(), "+"   *)
(* and "k in t" are computed character by character.  Links and URLs are   *)
(* only ever concatenated and compared, and are TLA+ strings.  A value     *)
(* that may be None is a sequence of length 0 (None) or 1 (the value).     *)
(***************************************************************************)
EXTENDS Integers, Sequences, FiniteSets, TLC

VARIABLES
    pc,        \* the statement of main that runs next, or "done" / "crashed"
    li,        \* index into LOCATIONS of the loop variable loc
    entries,   \* main's running list of postings
    results,   \* main's consolidated list
    calls,     \* log of the calls main has made, in order
    stdout,    \* what was printed
    files,     \* jobs.csv and jobs.html in the working directory
    env,       \* the environment read by send_email_with_attachments, once read
    smtp,      \* the SMTP commands issued
    reads,     \* the attachment files opened and read
    exc,       \* the exception that ended the run, or "none"
    exitCode,  \* the exit status of the process, once it has ended
    again      \* the result of consolidating results once more, once computed

vars == <<pc, li, entries, results, calls, stdout, files, env, smtp, reads,
          exc, exitCode, again>>

---------------------------------------------------------------------------
(* Bounds of the model *)

\* most listing fragments on one fetched page
MaxCards == 1

\* most records in an input list handed directly to consolidate_and_filter
MaxEntries == 3

\* most records in an aggregated list handed to the tail of main
MaxAggregated == 2

---------------------------------------------------------------------------
(* Module constants, job-alert.py lines 23-30 *)

KEYWORDS == <<"s","o","f","t","w","a","r","e"," ","e","n","g","i","n","e","e","r"," ","O","R"," ","\"","w","e","b"," ","d","e","v","e","l","o","p","e","r","\""," ","O","R"," ","w","e","b"," ","d","e","v">>

India == <<"I","n","d","i","a">>

SaudiArabia == <<"S","a","u","d","i"," ","A","r","a","b","i","a">>

LOCATIONS == <<India, SaudiArabia>>

WORK_MODES == << <<"r","e","m","o","t","e">>, <<"h","y","b","r","i","d">>, <<"o","n","-","s","i","t","e">> >>

EXPERIENCE_KEYWORDS ==
    << <<"j","u","n","i","o","r">>,
       <<"e","n","t","r","y"," ","l","e","v","e","l">>,
       <<"e","n","t","r","y","-","l","e","v","e","l">>,
       <<"g","r","a","d","u","a","t","e">>,
       <<"i","n","t","e","r","n">> >>

\* the [:30] slice of parse_wellfound
WellfoundCap == 30

\* the default of EMAIL_SMTP_PORT
DefaultPort == 587

NA == <<"N","/","A">>

None == <<>>

Some(v) == <<v>>

---------------------------------------------------------------------------
(* Python string operations *)

LowerChar(c) ==
    CASE c = "A" -> "a" [] c = "B" -> "b" [] c = "C" -> "c" [] c = "D" -> "d"
      [] c = "E" -> "e" [] c = "F" -> "f" [] c = "G" -> "g" [] c = "H" -> "h"
      [] c = "I" -> "i" [] c = "J" -> "j" [] c = "K" -> "k" [] c = "L" -> "l"
      [] c = "M" -> "m" [] c = "N" -> "n" [] c = "O" -> "o" [] c = "P" -> "p"
      [] c = "Q" -> "q" [] c = "R" -> "r" [] c = "S" -> "s" [] c = "T" -> "t"
      [] c = "U" -> "u" [] c = "V" -> "v" [] c = "W" -> "w" [] c = "X" -> "x"
      [] c = "Y" -> "y" [] c = "Z" -> "z" [] OTHER -> c

\* str.lower()
Lower(s) == [i \in 1..Len(s) |-> LowerChar(s[i])]

\* k in t
Contains(t, k) ==
    \E i \in 0..(Len(t) - Len(k)) : SubSeq(t, i + 1, i + Len(k)) = k

RECURSIVE LStrip(_)
LStrip(s) == IF s # <<>> /\ Head(s) = " " THEN LStrip(Tail(s)) ELSE s

RECURSIVE RStrip(_)
RStrip(s) ==
    IF s # <<>> /\ s[Len(s)] = " " THEN RStrip(SubSeq(s, 1, Len(s) - 1)) ELSE s

\* the stripping of get_text(strip=True) on one text node
Strip(s) == RStrip(LStrip(s))

\* get_text(" ", strip=True): the stripped, non-empty text nodes joined by " "
RECURSIVE JoinStripped(_)
JoinStripped(nodes) ==
    IF nodes = <<>> THEN <<>>
    ELSE LET h == Strip(Head(nodes))
             r == JoinStripped(Tail(nodes))
         IN  IF h = <<>> THEN r
             ELSE IF r = <<>> THEN h
             ELSE h \o <<" ">> \o r

\* quote_plus on one character: unreserved characters are kept, a space
\* becomes "+", the others are percent-encoded
QuoteChar(c) ==
    CASE c = " "  -> "+"
      [] c = "\"" -> "%22"
      [] c = "["  -> "%5B"
      [] c = "]"  -> "%5D"
      [] OTHER    -> c

RECURSIVE QuotePlus(_)
QuotePlus(s) ==
    IF s = <<>> THEN "" ELSE QuoteChar(Head(s)) \o QuotePlus(Tail(s))

\* urlencode(params): key=value pairs joined by "&"
RECURSIVE urlencode(_)
urlencode(params) ==
    IF params = <<>> THEN ""
    ELSE LET kv == QuotePlus(Head(params)[1]) \o "=" \o QuotePlus(Head(params)[2])
         IN  IF Len(params) = 1 THEN kv
             ELSE kv \o "&" \o urlencode(Tail(params))

---------------------------------------------------------------------------
(* Matcher *)

matches_experience(text) ==
    LET t == Lower(text)
    IN  \E n \in 1..Len(EXPERIENCE_KEYWORDS) : Contains(t, EXPERIENCE_KEYWORDS[n])

matches_work_mode(text) ==
    LET t == Lower(text)
    IN  \E n \in 1..Len(WORK_MODES) : Contains(t, WORK_MODES[n])

---------------------------------------------------------------------------
(* What the network and the boards can hand to an adapter *)

\* requests.get either raises (timeout, connection error) or returns a
\* response; the body of a 200 response is the page's listing fragments
Raised(e) == [kind |-> "raise", exc |-> e, status |-> 0, cards |-> <<>>]

Response(st, cs) == [kind |-> "response", exc |-> "none", status |-> st, cards |-> cs]

\* a .jobsearch-SerpJobCard / .result fragment: the text of each element the
\* adapter selects, None where the element is missing; a is the first <a>,
\* holding its href attribute or None
IndeedCard(t, c, cn, l, cl, a, s, js) ==
    [title_el |-> t, company |-> c, companyName |-> cn, location |-> l,
     companyLocation |-> cl, a |-> a, summary |-> s, job_snippet |-> js]

IndeedCards ==
    { \* no entry-level word in title or summary, one in the company name
      IndeedCard(Some(<<"S","e","n","i","o","r"," ","A","r","c","h","i","t","e","c","t">>),
                 None, Some(<<"G","r","a","d","u","a","t","e"," ","L","a","b","s">>),
                 None, None, Some(Some("/job/1")), None, None),
      \* same link; "entry level" only across title + ' ' + summary
      IndeedCard(Some(<<"E","n","t","r","y">>), Some(<<"A","c","m","e">>), None,
                 Some(<<"P","u","n","e">>), None, Some(Some("/job/1")),
                 None, Some(<<"L","e","v","e","l"," ","r","o","l","e">>)),
      \* only a summary, in upper case, and an <a> without href
      IndeedCard(None, None, None, None, None, Some(None),
                 Some(<<" ","P","a","i","d"," ","I","N","T","E","R","N"," ">>), None),
      \* nothing entry-level at all
      IndeedCard(Some(<<"S","e","n","i","o","r"," ","D","e","v">>),
                 Some(<<"A","c","m","e">>), None, None, None, Some(Some("/job/2")),
                 None, None) }

\* a li[data-test="job-card"] fragment: the a[data-test="job-link"] element
\* (its href or None, and its text), the company-name element, and the text
\* of the rest of the fragment
JobLink(h, t) == [href |-> h, text |-> t]

WellfoundCard(jl, cn, rest) == [job_link |-> jl, company_name |-> cn, rest |-> rest]

WellfoundCards ==
    { \* complete fragment, company element missing
      WellfoundCard(Some(JobLink(Some("/jobs/9"), <<"J","u","n","i","o","r"," ","D","e","v">>)),
                    None, <<>>),
      \* same link, another title
      WellfoundCard(Some(JobLink(Some("/jobs/9"), <<"S","e","n","i","o","r"," ","D","e","v">>)),
                    Some(<<"G","r","a","d","u","a","t","e"," ","L","a","b","s">>),
                    <<" ","R","e","m","o","t","e">>),
      \* the job-link element is missing
      WellfoundCard(None, Some(<<"A","c","m","e">>), <<"I","n","t","e","r","n">>),
      \* the job-link element has no href attribute
      WellfoundCard(Some(JobLink(None, <<"G","r","a","d","u","a","t","e"," ","E","n","g","i","n","e","e","r">>)),
                    None, <<>>),
      \* nothing entry-level at all
      WellfoundCard(Some(JobLink(Some("/jobs/7"), <<"S","e","n","i","o","r"," ","D","e","v">>)),
                    Some(<<"A","c","m","e">>), <<>>) }

\* sequences over S of length at most n
RECURSIVE SeqsUpTo(_, _)
SeqsUpTo(S, n) ==
    IF n = 0 THEN { <<>> }
    ELSE LET shorter == SeqsUpTo(S, n - 1)
         IN  shorter \cup { Append(q, x) : q \in { r \in shorter : Len(r) = n - 1 }, x \in S }

FetchFailures ==
    { Raised("Timeout"), Raised("ConnectionError"), Response(403, <<>>), Response(503, <<>>) }

IndeedOutcomes ==
    FetchFailures \cup { Response(200, cs) : cs \in SeqsUpTo(IndeedCards, MaxCards) }

WellfoundOutcomes ==
    FetchFailures \cup { Response(200, cs) : cs \in SeqsUpTo(WellfoundCards, MaxCards) }

---------------------------------------------------------------------------
(* Source adapters.  Each returns [exc, results, out]: the exception that  *)
(* leaves the function ("none" when it returns), the list it returns, and  *)
(* what it printed.                                                        *)

Posting(t, c, l, lk, src, s) ==
    [title |-> t, company |-> c, location |-> l, salary |-> NA,
     link |-> lk, source |-> src, summary |-> s]

\* x or y on two select_one results
Either(x, y) == IF x # None THEN x ELSE y

indeed_url(location) ==
    "https://www.indeed.com/jobs" \o "?" \o
    urlencode(<< <<<<"q">>, KEYWORDS>>, <<<<"l">>, location>>,
                 <<<<"f","r","o","m","a","g","e">>, <<"3">>>> >>)

\* one iteration of the loop of parse_indeed: the records it appends
indeed_card(card, location, url) ==
    LET title   == IF card.title_el # None THEN Strip(card.title_el[1]) ELSE NA
        cel     == Either(card.company, card.companyName)
        company == IF cel # None THEN Strip(cel[1]) ELSE NA
        lel     == Either(card.location, card.companyLocation)
        loc     == IF lel # None THEN Strip(lel[1]) ELSE location
        link    == IF card.a # None /\ card.a[1] # None /\ card.a[1][1] # ""
                   THEN "https://www.indeed.com" \o card.a[1][1]
                   ELSE url
        sel     == Either(card.summary, card.job_snippet)
        summary_text == IF sel # None THEN JoinStripped(<<sel[1]>>) ELSE <<>>
    IN  IF matches_experience(title \o <<" ">> \o summary_text)
           \/ matches_experience(company)
        THEN << Posting(title, company, loc, link, "Indeed", summary_text) >>
        ELSE <<>>

RECURSIVE indeed_loop(_, _, _)
indeed_loop(cards, location, url) ==
    IF cards = <<>> THEN <<>>
    ELSE indeed_card(Head(cards), location, url)
         \o indeed_loop(Tail(cards), location, url)

parse_indeed(location, r) ==
    IF r.kind = "raise"
    THEN [exc |-> r.exc, results |-> <<>>, out |-> <<>>]
    ELSE IF r.status # 200
    THEN [exc |-> "none", results |-> <<>>, out |-> <<"Indeed fetch failed">>]
    ELSE [exc |-> "none", out |-> <<>>,
          results |-> indeed_loop(r.cards, location, indeed_url(location))]

wellfound_url(location) ==
    "https://wellfound.com/jobs" \o "?" \o
    urlencode(<< <<<<"s","e","a","r","c","h","[","q","u","e","r","y","]">>, KEYWORDS>>,
                 <<<<"s","e","a","r","c","h","[","l","o","c","a","t","i","o","n","s","]","[","]">>,
                   location>> >>)

\* one iteration of the loop of parse_wellfound: the exception it raises, or
\* the records it appends.  title is None when the job-link element is
\* missing, and None + ' ' raises TypeError; link_el['href'] raises KeyError
\* when the element has no href
wellfound_card(job, location, url) ==
    LET title   == IF job.job_link # None THEN Some(Strip(job.job_link[1].text)) ELSE None
        company == IF job.company_name # None THEN Strip(job.company_name[1]) ELSE NA
        summary == JoinStripped(
                      (IF job.job_link # None THEN <<job.job_link[1].text>> ELSE <<>>)
                      \o (IF job.company_name # None THEN <<job.company_name[1]>> ELSE <<>>)
                      \o <<job.rest>>)
    IN  IF job.job_link # None /\ job.job_link[1].href = None
        THEN [exc |-> "KeyError", results |-> <<>>]
        ELSE LET link == IF job.job_link # None
                         THEN "https://wellfound.com" \o job.job_link[1].href[1]
                         ELSE url
             IN  IF title = None
                 THEN [exc |-> "TypeError", results |-> <<>>]
                 ELSE [exc |-> "none",
                       results |->
                          IF matches_experience(title[1] \o <<" ">> \o summary)
                          THEN << Posting(title[1], company, location, link,
                                          "Wellfound", summary) >>
                          ELSE <<>>]

RECURSIVE wellfound_loop(_, _, _)
wellfound_loop(cards, location, url) ==
    IF cards = <<>> THEN [exc |-> "none", results |-> <<>>]
    ELSE LET h == wellfound_card(Head(cards), location, url)
         IN  IF h.exc # "none" THEN h
             ELSE LET t == wellfound_loop(Tail(cards), location, url)
                  IN  [exc |-> t.exc,
                       results |-> IF t.exc # "none" THEN <<>> ELSE h.results \o t.results]

\* cards[:30]
Prefix(cards, n) == SubSeq(cards, 1, IF Len(cards) < n THEN Len(cards) ELSE n)

parse_wellfound(location, r) ==
    IF r.kind = "raise"
    THEN [exc |-> r.exc, results |-> <<>>, out |-> <<>>]
    ELSE IF r.status # 200
    THEN [exc |-> "none", results |-> <<>>, out |-> <<"Wellfound fetch failed">>]
    ELSE LET w == wellfound_loop(Prefix(r.cards, WellfoundCap), location,
                                 wellfound_url(location))
         IN  [exc |-> w.exc, results |-> w.results, out |-> <<>>]

parse_glassdoor(location) ==
    [exc |-> "none", results |-> <<>>, out |-> <<"Glassdoor advisory">>]

parse_linkedin(location) ==
    [exc |-> "none", results |-> <<>>, out |-> <<"LinkedIn advisory">>]

---------------------------------------------------------------------------
(* Consolidator *)

\* a consolidator that never finds a link in seen
never_seen(e, seen) == FALSE

\* if e['link'] in seen
already_seen(e, seen) == e.link \in seen

\* text = (title + ' ' + summary).lower(); matches_experience(text)
accept(e) == matches_experience(Lower(e.title \o <<" ">> \o e.summary))

\* a consolidator that marks a link as seen only once a record is kept
mark_seen_if_kept(seen, e) == IF accept(e) THEN seen \cup {e.link} ELSE seen

\* seen.add(e['link'])
mark_seen(seen, e) == seen \cup {e.link}

\* filtered.insert(0, e)
keep_in_front(filtered, e) == <<e>> \o filtered

\* filtered.append(e)
keep(filtered, e) == Append(filtered, e)

\* the loop of consolidate_and_filter from position i, with the links seen
\* and the records kept so far
RECURSIVE consolidate_loop(_, _, _, _)
consolidate_loop(es, i, seen, filtered) ==
    IF i > Len(es) THEN filtered
    ELSE LET e == es[i]
         IN  IF already_seen(e, seen)
             THEN consolidate_loop(es, i + 1, seen, filtered)
             ELSE consolidate_loop(es, i + 1, mark_seen(seen, e),
                     IF accept(e) THEN keep(filtered, e) ELSE filtered)

\* a loop that starts at the second record
consolidate_from_second(es) == consolidate_loop(es, 2, {}, <<>>)

consolidate_and_filter(es) == consolidate_loop(es, 1, {}, <<>>)

---------------------------------------------------------------------------
(* Reporter *)

\* df[['title','company','salary','link','source','location']]
Project(rs) ==
    [i \in 1..Len(rs) |->
        [title |-> rs[i].title, company |-> rs[i].company, salary |-> rs[i].salary,
         link |-> rs[i].link, source |-> rs[i].source, location |-> rs[i].location]]

\* the working directory: for each report file, None or its rows
NoFiles == [f \in {"jobs.csv", "jobs.html"} |-> None]

\* reports left behind by an earlier run
StaleFiles ==
    [f \in {"jobs.csv", "jobs.html"} |->
        Some(Project(<< Posting(<<"I","n","t","e","r","n">>, NA, India,
                                "https://www.indeed.com/job/0", "Indeed", <<>>) >>))]

\* a reporter without the "if not results" guard
save_results_unguarded(rs, fs) ==
    [files |-> [f \in DOMAIN fs |-> Some(Project(rs))], out |-> <<"Saved jobs">>]

\* save_results(results) on the working directory fs: the directory afterwards
\* and what was printed
save_results(rs, fs) ==
    IF rs = <<>>
    THEN [files |-> fs, out |-> <<"No results to save.">>]
    ELSE [files |-> [f \in DOMAIN fs |-> Some(Project(rs))],
          out |-> <<"Saved jobs">>]

---------------------------------------------------------------------------
(* Notifier *)

IsDigit(c) == c \in {"0", "1", "2", "3", "4", "5", "6", "7", "8", "9"}

DigitValue(c) ==
    CASE c = "0" -> 0 [] c = "1" -> 1 [] c = "2" -> 2 [] c = "3" -> 3 [] c = "4" -> 4
      [] c = "5" -> 5 [] c = "6" -> 6 [] c = "7" -> 7 [] c = "8" -> 8 [] c = "9" -> 9

RECURSIVE DigitsValue(_)
DigitsValue(t) ==
    IF t = <<>> THEN 0
    ELSE 10 * DigitsValue(SubSeq(t, 1, Len(t) - 1)) + DigitValue(t[Len(t)])

\* int(s) on a string: None stands for ValueError
ParsePort(s) ==
    LET t == Strip(s)
    IN  IF t # <<>> /\ \A i \in 1..Len(t) : IsDigit(t[i])
        THEN Some(DigitsValue(t)) ELSE None

\* the environment: each variable is None (unset) or its string
Environment(host, port, user, pass, to) ==
    [EMAIL_SMTP_HOST |-> host, EMAIL_SMTP_PORT |-> port, EMAIL_USER |-> user,
     EMAIL_PASS |-> pass, EMAIL_TO |-> to]

PortValues == { None, Some(<<"4","6","5">>), Some(<<>>) }

AllEnvs ==
    { Environment(h, p, u, w, t) :
        h \in {None, Some("smtp.example.com")}, p \in PortValues,
        u \in {None, Some("bot@example.com")}, w \in {None, Some("secret")},
        t \in {None, Some("a@example.com,b@example.com")} }
    \cup { Environment(Some(""), None, Some("bot@example.com"), Some("secret"),
                       Some("a@example.com")) }

\* the environments tried by a whole run: delivery configured, and
\* EMAIL_TO unset
RunEnvs ==
    { Environment(Some("smtp.example.com"), None, Some("bot@example.com"),
                  Some("secret"), t) :
        t \in {None, Some("a@example.com,b@example.com")} }

\* what the mail server does with a session
SmtpOutcomes == {"sent", "refused", "auth rejected"}

\* truth value of os.getenv(...)
Truthy(v) == v # None /\ v[1] # ""

\* the loop over attachments: open(path, 'rb') and f.read() of each, up to
\* the first file that does not exist
RECURSIVE read_attachments(_, _)
read_attachments(paths, fs) ==
    IF paths = <<>> THEN [exc |-> "none", reads |-> <<>>]
    ELSE IF fs[Head(paths)] = None THEN [exc |-> "FileNotFoundError", reads |-> <<>>]
    ELSE LET r == read_attachments(Tail(paths), fs)
         IN  [exc |-> r.exc, reads |-> <<Head(paths)>> \o r.reads]

\* send_email_with_attachments(attachments=...) in environment e, on working
\* directory fs, against a server behaving as server: the exception that
\* leaves it, the files it read, the SMTP commands it issued, what it printed
send_email_with_attachments(attachments, e, fs, server) ==
    LET SMTP_PORT == IF e.EMAIL_SMTP_PORT = None THEN Some(DefaultPort)
                     ELSE ParsePort(e.EMAIL_SMTP_PORT[1])
        quiet == [exc |-> "none", reads |-> <<>>, smtp |-> <<>>, out |-> <<>>]
        att   == read_attachments(attachments, fs)
    IN  IF SMTP_PORT = None
        THEN [quiet EXCEPT !.exc = "ValueError"]
        ELSE IF ~(Truthy(e.EMAIL_SMTP_HOST) /\ Truthy(e.EMAIL_USER)
                  /\ Truthy(e.EMAIL_PASS) /\ Truthy(e.EMAIL_TO))
        THEN [quiet EXCEPT !.out = <<"Email not configured; skipping email send.">>]
        ELSE IF att.exc # "none"
        THEN [quiet EXCEPT !.exc = att.exc, !.reads = att.reads]
        ELSE IF server = "refused"
        THEN [quiet EXCEPT !.exc = "ConnectionRefusedError", !.reads = att.reads,
                 !.smtp = <<"connect">>]
        ELSE IF server = "auth rejected"
        THEN [quiet EXCEPT !.exc = "SMTPAuthenticationError", !.reads = att.reads,
                 !.smtp = <<"connect", "starttls", "login">>]
        ELSE [quiet EXCEPT !.reads = att.reads,
                 !.smtp = <<"connect", "starttls", "login", "send_message">>,
                 !.out = <<"Email sent">>]

---------------------------------------------------------------------------
(* main *)

\* one entry of the log of what main has called: the function, the index of
\* the location it was called for, how its fetch went ("ok", "failed", or
\* "none" when it fetches nothing), the exception that left it, and the list
\* it returned
Call(f, i, fetch, e, ret) ==
    [adapter |-> f, loc |-> i, fetch |-> fetch, exc |-> e, ret |-> ret]

FetchOf(r) == IF r.kind = "response" /\ r.status = 200 THEN "ok" ELSE "failed"

\* a loop body that calls Glassdoor before Wellfound
main_next_swapped(p, i) ==
    CASE p = "indeed"    -> "glassdoor"
      [] p = "glassdoor" -> "wellfound"
      [] p = "wellfound" -> "linkedin"
      [] p = "linkedin"  -> "sleep"
      [] p = "sleep"     -> IF i < Len(LOCATIONS) THEN "indeed" ELSE "consolidate"

\* the statement of main that follows statement p of the loop body, in the
\* iteration for location i
main_next(p, i) ==
    CASE p = "indeed"    -> "wellfound"
      [] p = "wellfound" -> "glassdoor"
      [] p = "glassdoor" -> "linkedin"
      [] p = "linkedin"  -> "sleep"
      [] p = "sleep"     -> IF i < Len(LOCATIONS) THEN "indeed" ELSE "consolidate"

\* if results: send_email_with_attachments(...)
main_after_save(rs) == IF rs # <<>> THEN "email" ELSE "done"

Running == None

\* an uncaught exception ends the interpreter with status 1; returning from
\* main ends it with status 0
Finish(p, e) ==
    /\ pc' = p
    /\ exc' = e
    /\ exitCode' = IF p = "crashed" THEN Some(1)
                   ELSE IF p = "done" THEN Some(0) ELSE Running

\* entries += parse_x(loc), with res what parse_x did
Aggregate(name, fetch, res) ==
    /\ calls' = Append(calls, Call(name, li, fetch, res.exc, res.results))
    /\ stdout' = stdout \o res.out
    /\ IF res.exc # "none"
       THEN /\ Finish("crashed", res.exc)
            /\ UNCHANGED entries
       ELSE /\ Finish(main_next(pc, li), "none")
            /\ entries' = entries \o res.results
    /\ UNCHANGED <<li, results, files, env, smtp, reads, again>>

Indeed ==
    /\ pc = "indeed"
    /\ \E r \in IndeedOutcomes :
          Aggregate("Indeed", FetchOf(r), parse_indeed(LOCATIONS[li], r))

Wellfound ==
    /\ pc = "wellfound"
    /\ \E r \in WellfoundOutcomes :
          Aggregate("Wellfound", FetchOf(r), parse_wellfound(LOCATIONS[li], r))

Glassdoor ==
    /\ pc = "glassdoor"
    /\ Aggregate("Glassdoor", "none", parse_glassdoor(LOCATIONS[li]))

LinkedIn ==
    /\ pc = "linkedin"
    /\ Aggregate("LinkedIn", "none", parse_linkedin(LOCATIONS[li]))

\* time.sleep(1), then the next iteration of for loc in LOCATIONS
Sleep ==
    /\ pc = "sleep"
    /\ calls' = Append(calls, Call("sleep", li, "none", "none", <<>>))
    /\ Finish(main_next(pc, li), "none")
    /\ li' = IF li < Len(LOCATIONS) THEN li + 1 ELSE li
    /\ UNCHANGED <<entries, results, stdout, files, env, smtp, reads, again>>

Consolidate ==
    /\ pc = "consolidate"
    /\ results' = consolidate_and_filter(entries)
    /\ calls' = Append(calls, Call("consolidate_and_filter", li, "none", "none", <<>>))
    /\ Finish("save", "none")
    /\ UNCHANGED <<li, entries, stdout, files, env, smtp, reads, again>>

SaveResults ==
    /\ pc = "save"
    /\ LET w == save_results(results, files)
       IN  /\ files' = w.files
           /\ stdout' = stdout \o w.out
    /\ calls' = Append(calls, Call("save_results", li, "none", "none", <<>>))
    /\ Finish(main_after_save(results), "none")
    /\ UNCHANGED <<li, entries, results, env, smtp, reads, again>>

SendEmail(envs) ==
    /\ pc = "email"
    /\ \E e \in envs, server \in SmtpOutcomes :
          LET m == send_email_with_attachments(<<"jobs.csv", "jobs.html">>, e, files, server)
          IN  /\ env' = Some(e)
              /\ smtp' = m.smtp
              /\ reads' = m.reads
              /\ stdout' = stdout \o m.out
              /\ calls' = Append(calls, Call("send_email_with_attachments", li,
                                             "none", m.exc, <<>>))
              /\ Finish(IF m.exc # "none" THEN "crashed" ELSE "done", m.exc)
    /\ UNCHANGED <<li, entries, results, files, again>>

SendEmailRun == SendEmail(RunEnvs)

Init ==
    /\ pc = "indeed"
    /\ li = 1
    /\ entries = <<>>
    /\ results = <<>>
    /\ calls = <<>>
    /\ stdout = <<>>
    /\ files = NoFiles
    /\ env = None
    /\ smtp = <<>>
    /\ reads = <<>>
    /\ exc = "none"
    /\ exitCode = Running
    /\ again = None

Next ==
    \/ Indeed
    \/ Wellfound
    \/ Glassdoor
    \/ LinkedIn
    \/ Sleep
    \/ Consolidate
    \/ SaveResults
    \/ SendEmailRun

Spec == Init /\ [][Next]_vars

---------------------------------------------------------------------------
(* consolidate_and_filter on arbitrary lists of postings *)

SamplePostings ==
    { Posting(t, NA, India, lk, "Indeed", sm) :
        t  \in { <<"J","u","n","i","o","r"," ","D","e","v">>,
                 <<"S","e","n","i","o","r"," ","D","e","v">>,
                 <<"E","n","t","r","y">> },
        sm \in { <<>>, <<"L","e","v","e","l"," ","r","o","l","e">> },
        lk \in { "https://x/a", "https://x/b" } }

InitConsolidate ==
    /\ pc = "consolidate"
    /\ li = Len(LOCATIONS)
    /\ entries \in SeqsUpTo(SamplePostings, MaxEntries)
    /\ results = <<>>
    /\ calls = <<>>
    /\ stdout = <<>>
    /\ files = NoFiles
    /\ env = None
    /\ smtp = <<>>
    /\ reads = <<>>
    /\ exc = "none"
    /\ exitCode = Running
    /\ again = None

\* consolidate_and_filter applied to its own output
Reconsolidate ==
    /\ pc = "save"
    /\ again = None
    /\ again' = Some(consolidate_and_filter(results))
    /\ UNCHANGED <<pc, li, entries, results, calls, stdout, files, env, smtp,
                   reads, exc, exitCode>>

NextConsolidate ==
    \/ Consolidate
    \/ Reconsolidate

SpecConsolidate == InitConsolidate /\ [][NextConsolidate]_vars

---------------------------------------------------------------------------
(* The tail of main (consolidate, save, email) on arbitrary aggregated     *)
(* lists, working directories and environments                             *)

InitReport ==
    /\ pc = "consolidate"
    /\ li = Len(LOCATIONS)
    /\ entries \in SeqsUpTo(SamplePostings, MaxAggregated)
    /\ results = <<>>
    /\ calls = <<>>
    /\ stdout = <<>>
    /\ files \in {NoFiles, StaleFiles}
    /\ env = None
    /\ smtp = <<>>
    /\ reads = <<>>
    /\ exc = "none"
    /\ exitCode = Running
    /\ again = None

SendEmailAny == SendEmail(AllEnvs)

NextReport ==
    \/ Consolidate
    \/ SaveResults
    \/ SendEmailAny

SpecReport == InitReport /\ [][NextReport]_vars

---------------------------------------------------------------------------
(* Properties *)

Links(rs) == { rs[i].link : i \in DOMAIN rs }

\* the position of the first record of rs that carries link lk
FirstIndex(rs, lk) ==
    CHOOSE i \in DOMAIN rs :
        rs[i].link = lk /\ \A j \in 1..(i - 1) : rs[j].link # lk

\* a is b with some elements removed, order kept
RECURSIVE IsSubsequence(_, _)
IsSubsequence(a, b) ==
    IF a = <<>> THEN TRUE
    ELSE IF b = <<>> THEN FALSE
    ELSE IF Head(a) = Head(b) THEN IsSubsequence(Tail(a), Tail(b))
    ELSE IsSubsequence(a, Tail(b))

Consolidated == pc = "save" /\ Len(calls) > 0
                /\ calls[Len(calls)].adapter = "consolidate_and_filter"

\* C1: the output of consolidate_and_filter holds no two records with the
\* same link, and every record of it satisfies matches_experience on its own
\* title + ' ' + summary
C1_UniqueLinksAllMatch ==
    Consolidated =>
        /\ \A i, j \in DOMAIN results :
              i # j => results[i].link # results[j].link
        /\ \A i \in DOMAIN results :
              matches_experience(results[i].title \o <<" ">> \o results[i].summary)

\* C1 witness: an input with a repeated link and a record failing the filter
\* was consolidated to at least two records
C1_Witness ==
    /\ Consolidated
    /\ Len(results) >= 2
    /\ \E i, j \in DOMAIN entries : i < j /\ entries[i].link = entries[j].link
    /\ \E i \in DOMAIN entries :
          ~matches_experience(entries[i].title \o <<" ">> \o entries[i].summary)

\* C2: the output is a subsequence of the input (order kept, no record
\* altered), and the record kept for a link is the earliest input record
\* carrying that link
C2_StableFirstWins ==
    Consolidated =>
        /\ IsSubsequence(results, entries)
        /\ \A k \in DOMAIN results :
              results[k] = entries[FirstIndex(entries, results[k].link)]

\* C2 witness: two different records share a link, the earlier one was kept,
\* and the output has at least two records
C2_Witness ==
    /\ Consolidated
    /\ Len(results) >= 2
    /\ \E i, j \in DOMAIN entries :
          /\ i < j
          /\ entries[i].link = entries[j].link
          /\ entries[i] # entries[j]
          /\ \E k \in DOMAIN results : results[k] = entries[i]

\* C3: consolidating the output of a consolidation changes nothing: the same
\* sequence of records, hence the same set of links
C3_Idempotent ==
    again # None =>
        /\ again[1] = results
        /\ Links(again[1]) = Links(results)

\* C3 witness: a second pass ran on a non-empty output that the first pass
\* had shortened
C3_Witness ==
    /\ again # None
    /\ results # <<>>
    /\ Len(results) < Len(entries)

\* C10: a link is in the output exactly when the first input record
\* carrying it passes matches_experience on title + ' ' + summary; a later
\* record with that link never rescues it
C10_FirstRecordDecides ==
    Consolidated =>
        \A lk \in Links(entries) :
            LET f == entries[FirstIndex(entries, lk)]
            IN  (lk \in Links(results))
                  <=> matches_experience(f.title \o <<" ">> \o f.summary)

\* C10 witness: the first record of a link fails the filter, a later record
\* with the same link passes it, and the link is absent from the output
C10_Witness ==
    /\ Consolidated
    /\ \E i, j \in DOMAIN entries :
          /\ i < j
          /\ entries[i].link = entries[j].link
          /\ \A h \in 1..(i - 1) : entries[h].link # entries[i].link
          /\ ~matches_experience(entries[i].title \o <<" ">> \o entries[i].summary)
          /\ matches_experience(entries[j].title \o <<" ">> \o entries[j].summary)
          /\ entries[i].link \notin Links(results)

\* C4: an adapter whose fetch failed (non-200 status, timeout, network
\* error) returned an empty list and no exception left it
C4_FetchFailureIsolated ==
    \A k \in DOMAIN calls :
        calls[k].fetch = "failed" =>
            /\ calls[k].exc = "none"
            /\ calls[k].ret = <<>>

\* C5: a run that has ended without reaching the Notifier has ended with
\* exit status 0, whatever the boards' fetches did
C5_ExitsZero ==
    (/\ exitCode # Running
     /\ \A k \in DOMAIN calls : calls[k].adapter # "send_email_with_attachments")
        => exitCode = Some(0)

Required == {"EMAIL_SMTP_HOST", "EMAIL_USER", "EMAIL_PASS", "EMAIL_TO"}

\* C6: once send_email_with_attachments has run in an environment where a
\* required setting is unset, no SMTP command was issued, no attachment was
\* read, no exception left it and the run ended with status 0
C6_UnconfiguredSkips ==
    (env # None /\ \E v \in Required : env[1][v] = None) =>
        /\ smtp = <<>>
        /\ reads = <<>>
        /\ exc = "none"
        /\ exitCode = Some(0)

\* C7: save_results on an empty list leaves the working directory as it was
\* and raises nothing; the working directory changes only in save_results on
\* a non-empty list
C7_EmptyWritesNothing ==
    [][ /\ (pc = "save" /\ results = <<>>) => (files' = files /\ pc' = "done")
        /\ (files' # files) => (pc = "save" /\ results # <<>>) ]_vars

\* C7 witness: save_results has returned on an empty list and the reports of
\* an earlier run are still in place
C7_Witness ==
    /\ pc = "done"
    /\ results = <<>>
    /\ calls[Len(calls)].adapter = "save_results"
    /\ files = StaleFiles

\* C8: no exception leaves an adapter whose page was fetched, whichever
\* elements its listing fragments lack
C8_ParsingNeverFatal ==
    \A k \in DOMAIN calls : calls[k].fetch = "ok" => calls[k].exc = "none"

LoopBody == <<"Indeed", "Wellfound", "Glassdoor", "LinkedIn", "sleep">>

\* the lists returned by the calls of log, concatenated in order
RECURSIVE Returned(_)
Returned(log) ==
    IF log = <<>> THEN <<>>
    ELSE (IF Head(log).exc = "none" THEN Head(log).ret ELSE <<>>) \o Returned(Tail(log))

\* C9: main calls, for India and then for Saudi Arabia, Indeed, Wellfound,
\* Glassdoor, LinkedIn and then sleeps; the running list is what the calls
\* returned, in call order; consolidation comes only after the sleep of the
\* last location
C9_SequentialOrder ==
    LET n == Len(LoopBody) * Len(LOCATIONS)
    IN  /\ \A k \in DOMAIN calls :
              IF k <= n
              THEN /\ calls[k].adapter = LoopBody[((k - 1) % Len(LoopBody)) + 1]
                   /\ calls[k].loc = ((k - 1) \div Len(LoopBody)) + 1
              ELSE calls[k].adapter \notin { LoopBody[m] : m \in DOMAIN LoopBody }
        /\ \A k \in DOMAIN calls :
              calls[k].adapter = "consolidate_and_filter" => k = n + 1
        /\ entries = Returned(calls)

\* C9 witness: both locations were processed, each contributed records, and
\* consolidation has started
C9_Witness ==
    /\ pc = "save"
    /\ \E j, k \in DOMAIN calls :
          /\ calls[j].loc = 1 /\ calls[j].ret # <<>>
          /\ calls[k].loc = 2 /\ calls[k].ret # <<>>
    /\ calls[Len(calls)].adapter = "consolidate_and_filter"

====
